---- MODULE Spec2Model ----
(***************************************************************************)
(* Model of docx/section.py: the Sections sequence, the Section proxy and  *)
(* the _Header / _Footer proxies with their inheritance ("linked to        *)
(* previous") resolution.                                                  *)
(*                                                                         *)
(* The document tree (w:sectPr elements and their header/footer            *)
(* references) and the document part (relationships to header/footer       *)
(* parts) are collaborators of section.py; their state is held in the      *)
(* variables below and their operations are the operators of the first     *)
(* two sections of this module.                                            *)
(***************************************************************************)
EXTENDS Integers, Sequences, FiniteSets, TLC

\* Number of body positions of the document that can bear a w:sectPr.
MaxBody == 3

\* Python's None.
None == 0

Body == 1..MaxBody

\* Values assigned to _Header.is_linked_to_previous (any Python object).
Values == {"True", "False", "None", "1"}

\* Keys handed to Sections.__getitem__.
Keys == (0 - 1)..MaxBody

\* The page-setup properties of Section.
Fields == {"bottom_margin", "footer_distance", "gutter", "header_distance",
           "left_margin", "orientation", "page_height", "page_width",
           "right_margin", "start_type", "top_margin"}

\* The page-setup properties assigned to: the two whose sectPr attributes
\* are named header and footer, and one other.
AssignedFields == {"header_distance", "footer_distance", "orientation"}

\* Values assigned to a page-setup property: None or a setting.
Settings == {None, 1}

\* The classes of the header/footer proxy hierarchy.
Classes == {"_BaseHeaderFooter", "_Footer", "_Header"}

VARIABLES
    sectPrs,          \* body positions bearing a w:sectPr element
    headerReference,  \* sectPr element -> rId of its primary header reference, or None
    footerReference,  \* sectPr element -> rId of its primary footer reference, or None
    rels,             \* document part: rId -> header/footer part
    pageSetup,        \* <<sectPr element, attribute>> -> setting, for the settings present
    op                \* the last operation: its input, result and collaborator calls

vars == <<sectPrs, headerReference, footerReference, rels, pageSetup, op>>

-----------------------------------------------------------------------------
(* Python built-ins *)

\* bool(value)
bool(value) == value \in {"True", "1"}

\* a normally returned value / a raised exception
Return(v) == [raised |-> "", ret |-> v]
Raise(exc) == [raised |-> exc, ret |-> None]

\* lst[key] on a Python list, lst held as a 1-based sequence
PyGetItem(lst, key) ==
    LET k == IF key < 0 THEN key + Len(lst) ELSE key
    IN  IF k < 0 \/ k >= Len(lst) THEN Raise("IndexError") ELSE Return(lst[k + 1])

\* lst[start:stop] on a Python list, 0 <= start, 0 <= stop
PySlice(lst, start, stop) ==
    LET hi == IF stop > Len(lst) THEN Len(lst) ELSE stop
    IN  IF start >= hi THEN << >> ELSE SubSeq(lst, start + 1, hi)

-----------------------------------------------------------------------------
(* The document tree: CT_Document.sectPr_lst and CT_SectPr *)

\* the elements of S in document order
RECURSIVE InDocumentOrder(_)
InDocumentOrder(S) ==
    IF S = {} THEN << >>
    ELSE LET last == CHOOSE e \in S : \A f \in S : f <= e
         IN  Append(InDocumentOrder(S \ {last}), last)

\* document_elm.sectPr_lst
sectPr_lst == InDocumentOrder(sectPrs)

\* sectPr.preceding_sectPr
preceding_sectPr(sectPr) ==
    LET before == {e \in sectPrs : e < sectPr}
    IN  IF before = {} THEN None
        ELSE CHOOSE e \in before : \A f \in before : f <= e

\* sectPr.get_headerReference(PRIMARY), the reference's rId or None
get_headerReference(href, sectPr) == href[sectPr]

\* sectPr.get_footerReference(PRIMARY), the reference's rId or None
get_footerReference(sectPr) == footerReference[sectPr]

\* sectPr.add_headerReference(PRIMARY, rId)
add_headerReference(href, sectPr, rId) == [href EXCEPT ![sectPr] = rId]

\* sectPr.remove_headerReference(PRIMARY): the references left
remove_headerReference(href, sectPr) == [href EXCEPT ![sectPr] = None]

-----------------------------------------------------------------------------
(* The document part: relationships to header and footer parts *)

HeaderPart(n) == [type |-> "header", partname |-> n]
FooterPart(n) == [type |-> "footer", partname |-> n]

\* the next available relationship id
next_rId(rs) ==
    CHOOSE n \in 1..(Cardinality(DOMAIN rs) + 1) :
        /\ n \notin DOMAIN rs
        /\ \A m \in 1..(n - 1) : m \in DOMAIN rs

\* the next available header partname
next_partname(rs) ==
    LET used == {rs[r].partname : r \in {q \in DOMAIN rs : rs[q].type = "header"}}
    IN  CHOOSE n \in 1..(Cardinality(used) + 1) :
            /\ n \notin used
            /\ \A m \in 1..(n - 1) : m \in used

\* document_part.add_header_part() -> (header_part, rId), and the relationships after
add_header_part(rs) ==
    LET rId == next_rId(rs)
        part == HeaderPart(next_partname(rs))
    IN  [header_part |-> part, rId |-> rId,
         rels |-> [r \in DOMAIN rs \cup {rId} |-> IF r = rId THEN part ELSE rs[r]]]

\* document_part.header_part(rId)
header_part(rs, rId) ==
    IF rId \in DOMAIN rs THEN Return(rs[rId]) ELSE Raise("KeyError")

\* document_part.drop_header_part(rId): the relationships left
drop_header_part(rs, rId) == [r \in DOMAIN rs \ {rId} |-> rs[r]]

\* a collaborator call made by an operation
Call(fn, sectPr, rId) == [fn |-> fn, sectPr |-> sectPr, rId |-> rId]

-----------------------------------------------------------------------------
(* Sections *)

\* Section(sectPr, document_part)
Section(sectPr) == [_sectPr |-> sectPr]

\* the sectPr attribute a Section property delegates to
SectPrAttr(field) ==
    CASE field = "footer_distance" -> "footer"
      [] field = "header_distance" -> "header"
      [] OTHER -> field

\* the attributes of a sectPr
SectPrAttrs == {SectPrAttr(field) : field \in Fields}

\* Section.<field> (getter): the setting, None if not present
Section_get(ps, sectPr, field) ==
    LET attr == << sectPr, SectPrAttr(field) >>
    IN  Return(IF attr \in DOMAIN ps THEN ps[attr] ELSE None)

\* Section.<field> = value (setter): the settings left, None removing one
Section_set(ps, sectPr, field, value) ==
    LET attr == << sectPr, SectPrAttr(field) >>
    IN  IF value = None THEN [a \in DOMAIN ps \ {attr} |-> ps[a]]
        ELSE [a \in DOMAIN ps \cup {attr} |-> IF a = attr THEN value ELSE ps[a]]

\* Sections.__len__
Sections__len__ == Len(sectPr_lst)

\* Sections.__getitem__ indexing one position too low
Sections__getitem__OffByOne(key) ==
    LET item == PyGetItem(sectPr_lst, key - 1)
    IN  IF item.raised # "" THEN item ELSE Return(Section(item.ret))

\* Sections.__getitem__ that returns the last section for a key past the end
Sections__getitem__Clamped(key) ==
    LET last == Len(sectPr_lst) - 1
        item == PyGetItem(sectPr_lst, IF key > last THEN last ELSE key)
    IN  IF item.raised # "" THEN item ELSE Return(Section(item.ret))

\* Sections.__getitem__ with an integer key
Sections__getitem__(key) ==
    LET item == PyGetItem(sectPr_lst, key)
    IN  IF item.raised # "" THEN item ELSE Return(Section(item.ret))

\* Sections.__getitem__ with a slice key
Sections__getslice__(start, stop) ==
    LET lst == PySlice(sectPr_lst, start, stop)
    IN  Return([k \in 1..Len(lst) |-> Section(lst[k])])

\* Sections.__iter__, run to exhaustion
Sections__iter__ == [k \in 1..Len(sectPr_lst) |-> Section(sectPr_lst[k])]

-----------------------------------------------------------------------------
(* _BaseHeaderFooter, _Footer, _Header *)

\* the result of a proxy operation: the references and relationships it
\* leaves, what it returned or raised, the collaborator calls that changed
\* state or fetched a part, the sectPr elements it visited, and the sectPr
\* elements of the document, which no proxy operation adds or removes
Outcome(href, rs, result, calls, visited) ==
    [href |-> href, rels |-> rs, raised |-> result.raised, ret |-> result.ret,
     calls |-> calls, visited |-> visited, sectPrs |-> sectPrs]

\* the attributes each class body defines
ClassAttrs(cls) ==
    CASE cls = "_BaseHeaderFooter" -> {"is_linked_to_previous", "_has_definition"}
      [] cls = "_Footer" -> {"_has_definition"}
      [] cls = "_Header" -> {"is_linked_to_previous", "_add_header_part",
                             "_drop_header_part", "_element",
                             "_get_or_add_header_part", "_has_header_part",
                             "_header_part", "_prior_header"}

\* the class whose body supplies attr to an instance of cls
DefiningClass(cls, attr) ==
    IF attr \in ClassAttrs(cls) THEN cls ELSE "_BaseHeaderFooter"

\* _BaseHeaderFooter._has_definition
_BaseHeaderFooter_has_definition == Raise("NotImplementedError")

\* _Footer._has_definition that looks up the header reference
_Footer_has_definition_OfHeader(sectPr) ==
    LET footerReference_ == headerReference[sectPr]
    IN  Return(IF footerReference_ = None THEN FALSE ELSE TRUE)

\* _Footer._has_definition
_Footer_has_definition(sectPr) ==
    LET footerReference_ == get_footerReference(sectPr)
    IN  Return(IF footerReference_ = None THEN FALSE ELSE TRUE)

\* _Header._has_header_part
_has_header_part(href, sectPr) ==
    LET headerReference_ == get_headerReference(href, sectPr)
    IN  IF headerReference_ = None THEN FALSE ELSE TRUE

\* proxy._has_definition on an instance of cls
_has_definition(cls, sectPr) ==
    IF DefiningClass(cls, "_has_definition") = "_Footer"
    THEN _Footer_has_definition(sectPr)
    ELSE _BaseHeaderFooter_has_definition

\* _BaseHeaderFooter.is_linked_to_previous (getter)
_BaseHeaderFooter_is_linked_to_previous(cls, sectPr) ==
    LET d == _has_definition(cls, sectPr)
    IN  IF d.raised # "" THEN d ELSE Return(~d.ret)

\* _Header.is_linked_to_previous (getter) without the negation
_Header_is_linked_to_previous_NotNegated(href, sectPr) ==
    Return(_has_header_part(href, sectPr))

\* _Header.is_linked_to_previous (getter)
_Header_is_linked_to_previous(href, sectPr) ==
    Return(~_has_header_part(href, sectPr))

\* proxy.is_linked_to_previous on an instance of cls
is_linked_to_previous(cls, href, sectPr) ==
    IF DefiningClass(cls, "is_linked_to_previous") = "_Header"
    THEN _Header_is_linked_to_previous(href, sectPr)
    ELSE _BaseHeaderFooter_is_linked_to_previous(cls, sectPr)

\* _Header._add_header_part that does not record the reference
_add_header_part_NoReference(href, rs, sectPr) ==
    LET added == add_header_part(rs)
    IN  Outcome(href, added.rels, Return(added.header_part),
                << Call("add_header_part", None, added.rId) >>, << >>)

\* _Header._add_header_part
_add_header_part(href, rs, sectPr) ==
    LET added == add_header_part(rs)
    IN  Outcome(add_headerReference(href, sectPr, added.rId), added.rels,
                Return(added.header_part),
                << Call("add_header_part", None, added.rId),
                   Call("add_headerReference", sectPr, added.rId) >>,
                << >>)

\* _Header._drop_header_part that leaves the part in the document part
_drop_header_part_KeepPart(href, rs, sectPr) ==
    LET rId == get_headerReference(href, sectPr)
    IN  Outcome(remove_headerReference(href, sectPr), rs, Return(None),
                << Call("remove_headerReference", sectPr, rId) >>, << >>)

\* _Header._drop_header_part that removes the sectPr element instead of
\* its headerReference child
_drop_header_part_RemovesSectPr(href, rs, sectPr) ==
    LET rId == get_headerReference(href, sectPr)
    IN  [Outcome(href, drop_header_part(rs, rId), Return(None),
                 << Call("drop_header_part", None, rId) >>, << >>)
            EXCEPT !.sectPrs = sectPrs \ {sectPr}]

\* _Header._drop_header_part
_drop_header_part(href, rs, sectPr) ==
    LET rId == get_headerReference(href, sectPr)
    IN  Outcome(remove_headerReference(href, sectPr), drop_header_part(rs, rId),
                Return(None),
                << Call("remove_headerReference", sectPr, rId),
                   Call("drop_header_part", None, rId) >>,
                << >>)

\* _Header._header_part that returns None for a reference without a part
_header_part_Swallow(href, rs, sectPr) ==
    LET found == header_part(rs, get_headerReference(href, sectPr))
    IN  IF found.raised # "" THEN Return(None) ELSE found

\* _Header._header_part
_header_part(href, rs, sectPr) ==
    header_part(rs, get_headerReference(href, sectPr))

\* _Header._prior_header that skips over the preceding section
_prior_header_SkipOne(sectPr) ==
    LET preceding == preceding_sectPr(sectPr)
    IN  IF preceding = None THEN None
        ELSE IF preceding_sectPr(preceding) = None THEN preceding
        ELSE preceding_sectPr(preceding)

\* _Header._prior_header on the following instead of the preceding sectPr
_prior_header_Following(sectPr) ==
    LET after == {e \in sectPrs : e > sectPr}
    IN  IF after = {} THEN None
        ELSE CHOOSE e \in after : \A f \in after : e <= f

\* _Header._prior_header: the sectPr of the prior header proxy, or None
_prior_header(sectPr) ==
    LET preceding == preceding_sectPr(sectPr)
    IN  IF preceding = None THEN None ELSE preceding

\* _Header._get_or_add_header_part without case-2: a header that inherits
\* gets a part of its own whatever its section
_get_or_add_header_part_NoInherit(href, rs, sectPr) ==
    IF _has_header_part(href, sectPr)
    THEN Outcome(href, rs, _header_part(href, rs, sectPr),
                 << Call("header_part", None, get_headerReference(href, sectPr)) >>,
                 << sectPr >>)
    ELSE [_add_header_part(href, rs, sectPr) EXCEPT !.visited = << sectPr >>]

\* _Header._get_or_add_header_part with case-2 tried before case-1: the
\* prior header is asked first
RECURSIVE _get_or_add_header_part_PriorFirst(_, _, _)
_get_or_add_header_part_PriorFirst(href, rs, sectPr) ==
    LET prior_header == _prior_header(sectPr)
    IN  IF prior_header # None
        THEN LET inherited == _get_or_add_header_part_PriorFirst(href, rs, prior_header)
             IN  [inherited EXCEPT !.visited = << sectPr >> \o @]
        ELSE IF _has_header_part(href, sectPr)
        THEN Outcome(href, rs, _header_part(href, rs, sectPr),
                     << Call("header_part", None, get_headerReference(href, sectPr)) >>,
                     << sectPr >>)
        ELSE [_add_header_part(href, rs, sectPr) EXCEPT !.visited = << sectPr >>]

\* _Header._get_or_add_header_part
RECURSIVE _get_or_add_header_part(_, _, _)
_get_or_add_header_part(href, rs, sectPr) ==
    IF _has_header_part(href, sectPr)
    THEN Outcome(href, rs, _header_part(href, rs, sectPr),
                 << Call("header_part", None, get_headerReference(href, sectPr)) >>,
                 << sectPr >>)
    ELSE LET prior_header == _prior_header(sectPr)
         IN  IF prior_header # None
             THEN LET inherited == _get_or_add_header_part(href, rs, prior_header)
                  IN  [inherited EXCEPT !.visited = << sectPr >> \o @]
             ELSE [_add_header_part(href, rs, sectPr) EXCEPT !.visited = << sectPr >>]

\* _Header.is_linked_to_previous (setter) without the unchanged-value return
_Header_set_is_linked_to_previous_NoGuard(href, rs, sectPr, value) ==
    LET new_state == bool(value)
    IN  IF new_state = TRUE
        THEN _drop_header_part(href, rs, sectPr)
        ELSE [_add_header_part(href, rs, sectPr) EXCEPT !.ret = None]

\* _Header.is_linked_to_previous (setter) that defines through
\* _get_or_add_header_part instead of _add_header_part
_Header_set_is_linked_to_previous_ViaResolve(href, rs, sectPr, value) ==
    LET new_state == bool(value)
    IN  IF new_state = _Header_is_linked_to_previous(href, sectPr).ret
        THEN Outcome(href, rs, Return(None), << >>, << >>)
        ELSE IF new_state = TRUE
             THEN _drop_header_part(href, rs, sectPr)
             ELSE [_get_or_add_header_part(href, rs, sectPr)
                      EXCEPT !.ret = None, !.visited = << >>]

\* _Header.is_linked_to_previous (setter)
_Header_set_is_linked_to_previous(href, rs, sectPr, value) ==
    LET new_state == bool(value)
    IN  IF new_state = _Header_is_linked_to_previous(href, sectPr).ret
        THEN Outcome(href, rs, Return(None), << >>, << >>)
        ELSE IF new_state = TRUE
             THEN _drop_header_part(href, rs, sectPr)
             ELSE [_add_header_part(href, rs, sectPr) EXCEPT !.ret = None]

\* proxy.is_linked_to_previous = value on an instance of cls: the property
\* of _Header has a setter, the one of _BaseHeaderFooter has none
set_is_linked_to_previous(cls, href, rs, sectPr, value) ==
    IF DefiningClass(cls, "is_linked_to_previous") = "_Header"
    THEN _Header_set_is_linked_to_previous(href, rs, sectPr, value)
    ELSE Outcome(href, rs, Raise("AttributeError"), << >>, << >>)

-----------------------------------------------------------------------------
(* The state machine: a loaded document and the operations on it *)

\* the record of an operation kept in op
Done(name, cls, sectPr, arg, out) ==
    [name |-> name, cls |-> cls, sectPr |-> sectPr, arg |-> arg,
     raised |-> out.raised, ret |-> out.ret, calls |-> out.calls,
     visited |-> out.visited,
     pre |-> [headerReference |-> headerReference, rels |-> rels,
              sectPrs |-> sectPrs, footerReference |-> footerReference,
              pageSetup |-> pageSetup]]

\* an operation that only reads
Read(name, cls, sectPr, arg, result) ==
    /\ op' = Done(name, cls, sectPr, arg,
                  Outcome(headerReference, rels, result, << >>, << >>))
    /\ UNCHANGED <<sectPrs, headerReference, footerReference, rels, pageSetup>>

\* an operation of _Header that may change references and relationships
Write(name, sectPr, arg, out) ==
    /\ op' = Done(name, "_Header", sectPr, arg, out)
    /\ headerReference' = out.href
    /\ rels' = out.rels
    /\ sectPrs' = out.sectPrs
    /\ UNCHANGED <<footerReference, pageSetup>>

\* the relationship ids of a loaded document: the defined headers take
\* rId1, rId2, ... in document order, the footers the ids after the headers'
InitHeaderRId(H, e) == Cardinality({h \in H : h <= e})
InitFooterRId(e) == MaxBody + e

\* A document as loaded: the body positions S bear a sectPr; those of H have
\* a primary header reference and those of F a primary footer reference;
\* every reference is a relationship of the document part to a part of its
\* own, but for the header references of D, whose rId the document part
\* does not have; no page-setup attribute is present.
Loaded(S, H, F, D) ==
    /\ sectPrs = S
    /\ headerReference = [e \in S |-> IF e \in H THEN InitHeaderRId(H, e) ELSE None]
    /\ footerReference = [e \in S |-> IF e \in F THEN InitFooterRId(e) ELSE None]
    /\ rels = [r \in {InitHeaderRId(H, e) : e \in H \ D} \cup {InitFooterRId(e) : e \in F} |->
                 IF r > MaxBody THEN FooterPart(r - MaxBody) ELSE HeaderPart(r)]
    /\ pageSetup = << >>
    /\ op = [name |-> "load", cls |-> "", sectPr |-> None, arg |-> None,
             raised |-> "", ret |-> None, calls |-> << >>, visited |-> << >>,
             pre |-> [headerReference |-> headerReference, rels |-> rels,
                      sectPrs |-> sectPrs, footerReference |-> footerReference,
                      pageSetup |-> pageSetup]]

Init ==
    \E S \in SUBSET Body \ {{}} : \E H \in SUBSET S : \E F \in SUBSET S :
        Loaded(S, H, F, {})

\* len(sections)
Len_ == Read("__len__", "Sections", None, None, Return(Sections__len__))

\* sections[key]
GetItem ==
    \E key \in Keys :
        Read("__getitem__", "Sections", None, key, Sections__getitem__(key))

\* sections[start:stop]
GetSlice ==
    \E start \in 0..1 : \E stop \in 1..MaxBody :
        Read("__getslice__", "Sections", None, <<start, stop>>,
             Sections__getslice__(start, stop))

\* list(sections)
Iter == Read("__iter__", "Sections", None, None, Return(Sections__iter__))

\* section.header
SectionHeader ==
    \E sectPr \in sectPrs :
        Read("header", "Section", sectPr, None,
             Return([cls |-> "_Header", _sectPr |-> sectPr]))

\* section.footer
SectionFooter ==
    \E sectPr \in sectPrs :
        Read("footer", "Section", sectPr, None,
             Return([cls |-> "_Footer", _sectPr |-> sectPr]))

\* proxy._has_definition, proxy an instance of cls on sectPr
GetHasDefinition ==
    \E cls \in Classes : \E sectPr \in sectPrs :
        Read("_has_definition", cls, sectPr, None, _has_definition(cls, sectPr))

\* proxy.is_linked_to_previous, proxy an instance of cls on sectPr
GetIsLinkedToPrevious ==
    \E cls \in Classes : \E sectPr \in sectPrs :
        Read("is_linked_to_previous", cls, sectPr, None,
             is_linked_to_previous(cls, headerReference, sectPr))

\* header.is_linked_to_previous = value
SetIsLinkedToPrevious ==
    \E sectPr \in sectPrs : \E value \in Values :
        Write("is_linked_to_previous=", sectPr, value,
              _Header_set_is_linked_to_previous(headerReference, rels, sectPr, value))

\* footer.is_linked_to_previous = value
SetFooterIsLinkedToPrevious ==
    \E sectPr \in sectPrs : \E value \in Values :
        LET out == set_is_linked_to_previous("_Footer", headerReference, rels,
                                             sectPr, value)
        IN  /\ op' = Done("is_linked_to_previous=", "_Footer", sectPr, value, out)
            /\ headerReference' = out.href
            /\ rels' = out.rels
            /\ sectPrs' = out.sectPrs
            /\ UNCHANGED <<footerReference, pageSetup>>

\* header._element, the content of the header: _get_or_add_header_part()
GetOrAddHeaderPart ==
    \E sectPr \in sectPrs :
        Write("_get_or_add_header_part", sectPr, None,
              _get_or_add_header_part(headerReference, rels, sectPr))

Next ==
    \/ Len_
    \/ GetItem
    \/ GetSlice
    \/ Iter
    \/ SectionHeader
    \/ SectionFooter
    \/ GetHasDefinition
    \/ GetIsLinkedToPrevious
    \/ SetIsLinkedToPrevious
    \/ SetFooterIsLinkedToPrevious
    \/ GetOrAddHeaderPart

Spec == Init /\ [][Next]_vars

\* section.<field> for each page-setup property of one section
GetPageSetup ==
    \E sectPr \in sectPrs :
        Read("page setup", "Section", sectPr, None,
             Return([field \in Fields |-> Section_get(pageSetup, sectPr, field).ret]))

\* section.<field> = value, on a document whose other settings are as loaded
SetPageSetup ==
    \E sectPr \in sectPrs : \E field \in AssignedFields : \E value \in Settings :
        /\ DOMAIN pageSetup \subseteq {<< sectPr, SectPrAttr(field) >>}
        /\ pageSetup' = Section_set(pageSetup, sectPr, field, value)
        /\ op' = Done("page setup=", "Section", sectPr, <<field, value>>,
                      Outcome(headerReference, rels, Return(None), << >>, << >>))
        /\ UNCHANGED <<sectPrs, headerReference, footerReference, rels>>

\* A document as loaded whose sections all have a footer or all have none.
InitPage ==
    \E S \in SUBSET Body \ {{}} : \E H \in SUBSET S : \E F \in {{}, S} :
        Loaded(S, H, F, {})

NextPage ==
    \/ Len_
    \/ GetItem
    \/ Iter
    \/ GetIsLinkedToPrevious
    \/ SetIsLinkedToPrevious
    \/ GetOrAddHeaderPart
    \/ GetPageSetup
    \/ SetPageSetup

\* the page-setup properties of Section together with the operations on the
\* sequence and on the headers and footers
SpecPage == InitPage /\ [][NextPage]_vars

\* A malformed document: at least one header reference names a relationship
\* the document part does not have.
InitMalformed ==
    \E S \in SUBSET Body \ {{}} : \E H \in SUBSET S : \E D \in SUBSET H \ {{}} :
        Loaded(S, H, {}, D)

NextMalformed ==
    \/ GetIsLinkedToPrevious
    \/ SetIsLinkedToPrevious
    \/ GetOrAddHeaderPart

\* the operations on the headers of a malformed document
SpecMalformed == InitMalformed /\ [][NextMalformed]_vars

TypeOK ==
    /\ sectPrs \in SUBSET Body /\ sectPrs # {}
    /\ DOMAIN headerReference = sectPrs
    /\ DOMAIN footerReference = sectPrs
    /\ \A r \in DOMAIN rels : rels[r].type \in {"header", "footer"}
    /\ \A attr \in DOMAIN pageSetup : attr[1] \in sectPrs /\ attr[2] \in SectPrAttrs

-----------------------------------------------------------------------------
(* Properties *)

\* the state the last operation started from
preReference == op.pre.headerReference
preRels == op.pre.rels

\* the calls of the last operation to the collaborator function fn
CallsTo(fn) == SelectSeq(op.calls, LAMBDA c : c.fn = fn)

\* the parts of the relationships rs
PartsOf(rs) == {rs[r] : r \in DOMAIN rs}

\* the first section of the document
FirstSectPr == CHOOSE e \in sectPrs : \A f \in sectPrs : e <= f

\* the nearest section before sectPr with a header reference in href, or None
NearestDefinedBefore(href, sectPr) ==
    LET defined == {e \in sectPrs : e < sectPr /\ href[e] # None}
    IN  IF defined = {} THEN None
        ELSE CHOOSE e \in defined : \A f \in defined : f <= e

Resolved == op.name = "_get_or_add_header_part"
Assigned == op.name = "is_linked_to_previous=" /\ op.cls = "_Header"

\* the last operation made one add_header_part call, for a relationship and
\* a part the document part did not have, and recorded its rId on sectPr
AddedOnePartFor(sectPr) ==
    /\ Len(CallsTo("add_header_part")) = 1
    /\ Len(CallsTo("add_headerReference")) = 1
    /\ LET rId == CallsTo("add_header_part")[1].rId
       IN  /\ rId \notin DOMAIN preRels
           /\ rId \in DOMAIN rels
           /\ rels[rId] \notin PartsOf(preRels)
           /\ rels[rId].type = "header"
           /\ CallsTo("add_headerReference")[1] = Call("add_headerReference", sectPr, rId)
           /\ headerReference[sectPr] = rId
           /\ \A r \in DOMAIN preRels : r \in DOMAIN rels /\ rels[r] = preRels[r]
           /\ DOMAIN rels = DOMAIN preRels \cup {rId}

\* C1: _get_or_add_header_part on a section whose header has no reference,
\* when some preceding section has one, returns the part referenced by the
\* nearest preceding section that has a reference.
C1_InheritsNearestDefinition ==
    (/\ Resolved
     /\ preReference[op.sectPr] = None
     /\ NearestDefinedBefore(preReference, op.sectPr) # None)
    => /\ op.raised = ""
       /\ op.ret = preRels[preReference[NearestDefinedBefore(preReference, op.sectPr)]]

\* C1 witness: [A(defined), B(linked), C(linked)], resolved on C
C1_Witness ==
    /\ Resolved
    /\ Len(op.visited) = 3
    /\ preReference[op.visited[1]] = None
    /\ preReference[op.visited[2]] = None
    /\ preReference[op.visited[3]] # None
    /\ op.ret = preRels[preReference[op.visited[3]]]

\* C2: _get_or_add_header_part on the first section, when it has no header
\* reference, makes exactly one add_header_part call, records the returned
\* rId on the first section, returns the new part, and leaves the first
\* section with a definition (not linked to previous).
C2_FirstSectionMaterializes ==
    (/\ Resolved
     /\ preceding_sectPr(op.sectPr) = None
     /\ preReference[op.sectPr] = None)
    => /\ op.raised = ""
       /\ AddedOnePartFor(op.sectPr)
       /\ op.ret = rels[headerReference[op.sectPr]]
       /\ op.ret \notin PartsOf(preRels)
       /\ _has_header_part(headerReference, op.sectPr)
       /\ is_linked_to_previous("_Header", headerReference, op.sectPr) = Return(FALSE)

\* C2 witness: the first section resolved while it had no reference
C2_Witness ==
    /\ Resolved
    /\ op.sectPr = FirstSectPr
    /\ preReference[op.sectPr] = None
    /\ headerReference[op.sectPr] # None
    /\ op.visited = << op.sectPr >>

\* C3: _get_or_add_header_part on a second-or-later section, when neither it
\* nor any preceding section has a header reference, makes exactly one
\* add_header_part call, records the rId on the first section of the
\* document, returns the first section's new part, and leaves the section
\* and all sections between linked.
C3_AllLinkedMaterializesFirst ==
    (/\ Resolved
     /\ preceding_sectPr(op.sectPr) # None
     /\ \A e \in sectPrs : e <= op.sectPr => preReference[e] = None)
    => /\ op.raised = ""
       /\ AddedOnePartFor(FirstSectPr)
       /\ op.ret = rels[headerReference[FirstSectPr]]
       /\ \A e \in sectPrs \ {FirstSectPr} : headerReference[e] = preReference[e]
       /\ \A e \in sectPrs \ {FirstSectPr} : e <= op.sectPr => headerReference[e] = None

\* C3 witness: three sections, none defined, resolved on the third
C3_Witness ==
    /\ Resolved
    /\ Len(op.visited) = 3
    /\ \A e \in sectPrs : preReference[e] = None
    /\ headerReference[FirstSectPr] # None
    /\ headerReference[op.sectPr] = None

\* C4: assigning True to is_linked_to_previous of a header with reference r
\* removes the reference and makes exactly one drop_header_part call, with
\* r; afterwards the header has no definition and is linked to previous.
C4_LinkDropsDefinition ==
    (/\ Assigned
     /\ bool(op.arg) = TRUE
     /\ preReference[op.sectPr] # None)
    => /\ op.raised = ""
       /\ headerReference[op.sectPr] = None
       /\ CallsTo("remove_headerReference")
            = << Call("remove_headerReference", op.sectPr, preReference[op.sectPr]) >>
       /\ CallsTo("drop_header_part")
            = << Call("drop_header_part", None, preReference[op.sectPr]) >>
       /\ preReference[op.sectPr] \notin DOMAIN rels
       /\ ~_has_header_part(headerReference, op.sectPr)
       /\ is_linked_to_previous("_Header", headerReference, op.sectPr) = Return(TRUE)

\* C4 witness: a defined header was linked
C4_Witness ==
    /\ Assigned
    /\ bool(op.arg) = TRUE
    /\ preReference[op.sectPr] # None
    /\ headerReference[op.sectPr] = None
    /\ Len(CallsTo("drop_header_part")) = 1

\* C5: assigning False to is_linked_to_previous of a header without
\* reference makes exactly one add_header_part call and records the rId on
\* this section and on no other; afterwards the header has a definition.
C5_UnlinkAddsDefinition ==
    (/\ Assigned
     /\ bool(op.arg) = FALSE
     /\ preReference[op.sectPr] = None)
    => /\ op.raised = ""
       /\ AddedOnePartFor(op.sectPr)
       /\ \A e \in sectPrs \ {op.sectPr} : headerReference[e] = preReference[e]
       /\ _has_header_part(headerReference, op.sectPr)
       /\ is_linked_to_previous("_Header", headerReference, op.sectPr) = Return(FALSE)

\* C5 witness: a later section whose predecessors are all linked was unlinked
C5_Witness ==
    /\ Assigned
    /\ bool(op.arg) = FALSE
    /\ preReference[op.sectPr] = None
    /\ headerReference[op.sectPr] # None
    /\ op.sectPr # FirstSectPr
    /\ \A e \in sectPrs \ {op.sectPr} : headerReference[e] = None

\* C6: assigning is_linked_to_previous the value it has makes no call and
\* changes no reference and no relationship; so a second assignment of the
\* value just assigned changes nothing, and an assignment makes at most one
\* drop and at most one add.
C6_AssignSameValueIsNoOp ==
    Assigned
    => /\ (bool(op.arg) = (preReference[op.sectPr] = None))
            => /\ op.calls = << >>
               /\ headerReference = preReference
               /\ rels = preRels
       /\ LET again == _Header_set_is_linked_to_previous(
                           headerReference, rels, op.sectPr, op.arg)
          IN  /\ again.calls = << >>
              /\ again.href = headerReference
              /\ again.rels = rels
       /\ Len(CallsTo("drop_header_part")) <= 1
       /\ Len(CallsTo("add_header_part")) <= 1

\* C6 witness: True assigned to a header that was already linked
C6_Witness ==
    /\ Assigned
    /\ bool(op.arg) = TRUE
    /\ preReference[op.sectPr] = None
    /\ op.calls = << >>
    /\ \E e \in sectPrs : headerReference[e] # None

\* C7: after assigning False to is_linked_to_previous of any header, the
\* header has a definition and _get_or_add_header_part returns the part this
\* section references, visits no other section and adds no part.
C7_UnlinkedResolvesToOwnPart ==
    (Assigned /\ bool(op.arg) = FALSE)
    => /\ _has_header_part(headerReference, op.sectPr)
       /\ LET content == _get_or_add_header_part(headerReference, rels, op.sectPr)
          IN  /\ content.raised = ""
              /\ content.ret = rels[headerReference[op.sectPr]]
              /\ content.visited = << op.sectPr >>
              /\ content.href = headerReference
              /\ content.rels = rels
              /\ \A e \in sectPrs \ {op.sectPr} :
                    headerReference[e] # None => content.ret # rels[headerReference[e]]

\* C7 witness: False assigned to a later header whose predecessor is defined
C7_Witness ==
    /\ Assigned
    /\ bool(op.arg) = FALSE
    /\ preReference[op.sectPr] = None
    /\ preceding_sectPr(op.sectPr) # None
    /\ headerReference[preceding_sectPr(op.sectPr)] # None
    /\ headerReference[op.sectPr] # None

\* C8: _has_definition read on a _Header or on a _Footer proxy returns
\* whether the section has a primary header (resp. footer) reference, and
\* NotImplementedError is raised only on a _BaseHeaderFooter instance.
C8_DefinitionCheckSupplied ==
    op.name = "_has_definition"
    => /\ op.cls = "_Header"
            => op.raised = "" /\ op.ret = (headerReference[op.sectPr] # None)
       /\ op.cls = "_Footer"
            => op.raised = "" /\ op.ret = (footerReference[op.sectPr] # None)
       /\ op.raised = "NotImplementedError" => op.cls = "_BaseHeaderFooter"

\* C9: in every reachable state and for every section, is_linked_to_previous
\* read on its _Header (resp. _Footer) returns true iff the section has no
\* primary header (resp. footer) reference.
C9_LinkedIffNoReference ==
    /\ \A sectPr \in sectPrs :
          /\ is_linked_to_previous("_Header", headerReference, sectPr)
                = Return(headerReference[sectPr] = None)
          /\ is_linked_to_previous("_Footer", headerReference, sectPr)
                = Return(footerReference[sectPr] = None)
    /\ (op.name = "is_linked_to_previous" /\ op.cls = "_Header")
          => op.raised = "" /\ op.ret = (headerReference[op.sectPr] = None)
    /\ (op.name = "is_linked_to_previous" /\ op.cls = "_Footer")
          => op.raised = "" /\ op.ret = (footerReference[op.sectPr] = None)

\* C9 witness: is_linked_to_previous read as true on the header of a section
\* that has a footer reference, in a document where another section has a
\* header definition
C9_Witness ==
    /\ op.name = "is_linked_to_previous"
    /\ op.cls = "_Header"
    /\ op.ret = TRUE
    /\ headerReference[op.sectPr] = None
    /\ footerReference[op.sectPr] # None
    /\ \E e \in sectPrs \ {op.sectPr} : headerReference[e] # None

\* C10: iterating the sections yields len(sections) sections in document
\* order, and for every i in 0..len-1 the i-th of them wraps the sectPr
\* that sections[i] wraps.
C10_GetItemAgreesWithIter ==
    op.name = "__iter__"
    => /\ op.raised = ""
       /\ Len(op.ret) = Sections__len__
       /\ \A i \in 0..(Sections__len__ - 1) :
             /\ Sections__getitem__(i).raised = ""
             /\ Sections__getitem__(i).ret._sectPr = op.ret[i + 1]._sectPr
       /\ \A i \in 1..Len(op.ret) : \A j \in 1..Len(op.ret) :
             i < j => op.ret[i]._sectPr < op.ret[j]._sectPr
       /\ {op.ret[i]._sectPr : i \in 1..Len(op.ret)} = sectPrs

\* C10 witness: a document of three sections iterated
C10_Witness ==
    /\ op.name = "__iter__"
    /\ Len(op.ret) = 3
    /\ Sections__getitem__(2).ret = op.ret[3]

\* C11: sections[key] with key >= len(sections) raises IndexError, returns
\* no Section and leaves the document as it was.
C11_IndexPastEndRaises ==
    (op.name = "__getitem__" /\ op.arg >= Sections__len__)
    => /\ op.raised = "IndexError"
       /\ op.ret = None
       /\ op.calls = << >>
       /\ headerReference = preReference
       /\ rels = preRels
       /\ sectPrs = op.pre.sectPrs
       /\ footerReference = op.pre.footerReference
       /\ pageSetup = op.pre.pageSetup

\* C11 witness: a document of two sections indexed with 2
C11_Witness ==
    /\ op.name = "__getitem__"
    /\ Sections__len__ = 2
    /\ op.arg = 2
    /\ op.raised = "IndexError"

\* the operations that read: on the sequence, on Section, and the getters
\* of the proxies
Reading ==
    op.name \in {"__len__", "__getitem__", "__getslice__", "__iter__", "header",
                 "footer", "_has_definition", "is_linked_to_previous"}

\* the last operation added a part, a relationship or a header reference
Created ==
    \/ Len(CallsTo("add_header_part")) > 0
    \/ Len(CallsTo("add_headerReference")) > 0
    \/ DOMAIN rels \ DOMAIN preRels # {}
    \/ PartsOf(rels) \ PartsOf(preRels) # {}
    \/ \E e \in sectPrs : headerReference[e] # None /\ headerReference[e] # preReference[e]

\* C12: a part is created only by assigning a false value to
\* is_linked_to_previous of a linked header, or by _get_or_add_header_part
\* on a section that has no definition at or before it; the reading
\* operations, and _get_or_add_header_part where a definition exists at or
\* before the section, leave references and relationships unchanged.
C12_PartsCreatedLazily ==
    /\ Created
          => \/ Assigned /\ bool(op.arg) = FALSE /\ preReference[op.sectPr] = None
             \/ Resolved /\ \A e \in sectPrs : e <= op.sectPr => preReference[e] = None
    /\ (\/ Reading
        \/ Resolved /\ \E e \in sectPrs : e <= op.sectPr /\ preReference[e] # None)
          => /\ headerReference = preReference
             /\ rels = preRels
             /\ CallsTo("add_header_part") = << >>
             /\ CallsTo("add_headerReference") = << >>
             /\ CallsTo("drop_header_part") = << >>
             /\ CallsTo("remove_headerReference") = << >>

\* C12 witness: a linked section with a defined predecessor resolved, nothing
\* created
C12_Witness ==
    /\ Resolved
    /\ Len(op.visited) >= 2
    /\ preReference[op.sectPr] = None
    /\ ~Created
    /\ rels = preRels
    /\ op.ret \in PartsOf(preRels)

\* the sections at or before sectPr
UpTo(sectPr) == {e \in sectPrs : e <= sectPr}

\* the references href with the state of the later sections L switched:
\* a defined one linked, a linked one given a reference
WithLaterSwitched(href, rs, L) ==
    [e \in DOMAIN href |->
        IF e \in L THEN (IF href[e] = None THEN next_rId(rs) ELSE None)
        ELSE href[e]]

\* C13: the part _get_or_add_header_part returns for a section is referenced
\* by a section at or before it, and what it returns, visits and leaves at
\* or before the section does not depend on whether later sections are
\* linked or defined.
C13_NeverInheritsFromLater ==
    (Resolved /\ op.raised = "")
    => /\ \E j \in UpTo(op.sectPr) :
             /\ headerReference[j] # None
             /\ op.ret = rels[headerReference[j]]
       /\ \A e \in sectPrs \ UpTo(op.sectPr) : headerReference[e] = preReference[e]
       /\ \A k \in 1..Len(op.visited) : op.visited[k] \in UpTo(op.sectPr)
       /\ \A L \in SUBSET (sectPrs \ UpTo(op.sectPr)) :
             LET other == _get_or_add_header_part(
                              WithLaterSwitched(preReference, preRels, L),
                              preRels, op.sectPr)
             IN  /\ other.raised = op.raised
                 /\ other.ret = op.ret
                 /\ other.visited = op.visited
                 /\ \A e \in UpTo(op.sectPr) : other.href[e] = headerReference[e]

\* C13 witness: a linked first section resolved while a later section is
\* defined
C13_Witness ==
    /\ Resolved
    /\ op.sectPr = FirstSectPr
    /\ preReference[op.sectPr] = None
    /\ \E e \in sectPrs : e > op.sectPr /\ preReference[e] # None
    /\ \A e \in sectPrs : e > op.sectPr /\ preReference[e] # None
          => op.ret # rels[headerReference[e]]

\* the 1-based position of sectPr in the document
Position(sectPr) == Cardinality(UpTo(sectPr))

\* C14: _get_or_add_header_part started on the section at 0-based position i
\* visits that section and then only strictly earlier ones, each the
\* preceding sectPr of the one before, at most i+1 in all, and stops at the
\* first visited section with a definition or at the first section.
C14_ResolutionBounded ==
    Resolved
    => /\ Len(op.visited) >= 1
       /\ op.visited[1] = op.sectPr
       /\ Len(op.visited) <= Position(op.sectPr)
       /\ Len(op.visited) <= Sections__len__
       /\ \A k \in 1..(Len(op.visited) - 1) :
             /\ op.visited[k + 1] < op.visited[k]
             /\ op.visited[k + 1] = preceding_sectPr(op.visited[k])
             /\ preReference[op.visited[k]] = None
       /\ LET last == op.visited[Len(op.visited)]
          IN  \/ preReference[last] # None
              \/ last = FirstSectPr

\* C14 witness: resolution from the third section that walked to the first
C14_Witness ==
    /\ Resolved
    /\ Position(op.sectPr) = 3
    /\ Len(op.visited) = 3
    /\ op.visited[3] = FirstSectPr

\* C15: no operation changes the number of sections or their order: the
\* sectPr elements, len(sections) and what iteration yields are after every
\* operation what they were before it.
C15_SectionsNeverReordered ==
    /\ sectPrs = op.pre.sectPrs
    /\ sectPr_lst = InDocumentOrder(op.pre.sectPrs)
    /\ Sections__len__ = Cardinality(op.pre.sectPrs)
    /\ Sections__iter__
          = [k \in 1..Cardinality(op.pre.sectPrs) |->
                Section(InDocumentOrder(op.pre.sectPrs)[k])]

\* C15 witness: a defined header of the middle of three sections was linked
\* in a document with a page-setup setting
C15_Witness ==
    /\ Assigned
    /\ Len(CallsTo("drop_header_part")) = 1
    /\ Sections__len__ = 3
    /\ Position(op.sectPr) = 2
    /\ pageSetup # << >>

\* the footer relationships of rs
FooterRels(rs) == {<< r, rs[r] >> : r \in {q \in DOMAIN rs : rs[q].type = "footer"}}

NearestDefinedUpTo(href, sectPr) ==
    IF href[sectPr] # None THEN sectPr ELSE NearestDefinedBefore(href, sectPr)

\* C17: when _get_or_add_header_part reaches a section whose header
\* reference names no relationship of the document part, the error of
\* header_part reaches the caller; no preceding section is asked, no part is
\* added, and references and relationships are unchanged.
C17_MissingPartPropagates ==
    (/\ Resolved
     /\ NearestDefinedUpTo(preReference, op.sectPr) # None
     /\ preReference[NearestDefinedUpTo(preReference, op.sectPr)] \notin DOMAIN preRels)
    => /\ op.raised = "KeyError"
       /\ op.ret = None
       /\ op.visited[Len(op.visited)] = NearestDefinedUpTo(preReference, op.sectPr)
       /\ CallsTo("add_header_part") = << >>
       /\ CallsTo("add_headerReference") = << >>
       /\ headerReference = preReference
       /\ rels = preRels

\* C17 witness: a linked section resolved to a reference without a part
\* while a section before that one has a part
C17_Witness ==
    /\ Resolved
    /\ op.raised = "KeyError"
    /\ Len(op.visited) = 2
    /\ \E e \in sectPrs :
          /\ e < op.visited[2]
          /\ preReference[e] # None
          /\ preReference[e] \in DOMAIN preRels

\* C18: from a document in which every header reference names a header part
\* and every header part is referenced by exactly one section, every
\* sequence of operations leaves every header reference naming a header
\* part, every header part referenced by exactly one section, and no part
\* under two relationships.
C18_ReferencesAndPartsConsistent ==
    /\ \A e \in sectPrs :
          headerReference[e] # None
             => /\ headerReference[e] \in DOMAIN rels
                /\ rels[headerReference[e]].type = "header"
    /\ \A r \in DOMAIN rels :
          rels[r].type = "header"
             => Cardinality({e \in sectPrs : headerReference[e] = r}) = 1
    /\ \A r \in DOMAIN rels : \A q \in DOMAIN rels : r # q => rels[r] # rels[q]

\* C18 witness: a part was added under a relationship id lower than the one
\* of an earlier section, an id that an earlier drop had freed
C18_Witness ==
    /\ Len(CallsTo("add_header_part")) = 1
    /\ \E e \in sectPrs : \E f \in sectPrs :
          /\ e < f
          /\ headerReference[f] = CallsTo("add_header_part")[1].rId
          /\ headerReference[e] # None
          /\ headerReference[f] < headerReference[e]

\* C19: assigning is_linked_to_previous on the header of a section adds or
\* removes only that section's header reference; the header references of
\* the other sections, the footer references and the page setup are
\* unchanged, and the only relationship added or dropped is the one the
\* added or removed reference names.
C19_AssignmentIsLocal ==
    Assigned
    => /\ \A e \in sectPrs \ {op.sectPr} : headerReference[e] = preReference[e]
       /\ footerReference = op.pre.footerReference
       /\ pageSetup = op.pre.pageSetup
       /\ sectPrs = op.pre.sectPrs
       /\ DOMAIN rels \ DOMAIN preRels \subseteq {headerReference[op.sectPr]} \ {None}
       /\ DOMAIN preRels \ DOMAIN rels \subseteq {preReference[op.sectPr]} \ {None}
       /\ \A r \in DOMAIN rels \cap DOMAIN preRels : rels[r] = preRels[r]
       /\ \A k \in 1..Len(op.calls) : op.calls[k].sectPr \in {None, op.sectPr}

\* C19 witness: a later header was unlinked in a document with footers and a
\* page-setup setting, while the sections before it are linked
C19_Witness ==
    /\ Assigned
    /\ Len(CallsTo("add_header_part")) = 1
    /\ op.sectPr # FirstSectPr
    /\ \A e \in sectPrs : e < op.sectPr => headerReference[e] = None
    /\ \E e \in sectPrs : footerReference[e] # None
    /\ pageSetup # << >>

====
